---- MODULE Spec2Model ----
(***************************************************************************)
(* Dislate: the translation client (translate, engine.fetch, engine.parse) *)
(* and the action-sheet patcher with its revert cache (patchActionSheet,   *)
(* the button's onPress, onStart, onStop).                                 *)
(*                                                                         *)
(* Strings of the program are TLA+ strings; a template literal is a \o     *)
(* concatenation.  A JavaScript value that may be undefined is a record    *)
(* with a boolean "has"/"present" field next to the value.                 *)
(***************************************************************************)
EXTENDS Integers, Sequences, FiniteSets, TLC

\* ------------------------------------------------------------------ bounds
\* Presses of the injected button in one run (every press takes a ticket).
MaxPresses == 3
\* Translate.string promises that may be unsettled at the same time.
MaxPending == 2
\* Times the user opens the long-press menu in one run.
MaxOpens == 3
\* Content hooks that may be installed at the same time.
MaxHooks == 3
\* Pages that may lie on the navigation stack above the settings panel.
MaxPages == 2
\* Entries of a button list the host renders.
MaxButtons == 3

\* ----------------------------------------------------- translation client
base == "https://api-free.deepl.com/v2/translate"

\* Texts handed to translate(): message contents and command arguments.
Texts == {"hello", "hi there", "a&b"}
\* Source-language codes: 'null' is the code of the "detect" sentinel.
FromCodes == {"null", "JA", "EN"}
ToCodes == {"EN", "JA"}

\* encodeURIComponent on the texts of the model: a space becomes %20 and
\* an ampersand %26, letters are kept.
encodeURIComponent(text) ==
    CASE text = "hi there" -> "hi%20there"
      [] text = "a&b" -> "a%26b"
      [] OTHER -> text

\* The query parameters engine.fetch writes, in order: target_lang, then
\* source_lang unless from == 'null', then the encoded text.
Param(name, value) == [name |-> name, value |-> value]

queryOf_rawText(from, to, text) ==
    <<Param("target_lang", to)>>
    \o (IF from = "null" THEN << >> ELSE <<Param("source_lang", from)>>)
    \o <<Param("text", text)>>

queryOf(from, to, text) ==
    <<Param("target_lang", to)>>
    \o (IF from = "null" THEN << >> ELSE <<Param("source_lang", from)>>)
    \o <<Param("text", encodeURIComponent(text))>>

\* The parameters as the template literal renders them: name=value joined
\* by ampersands.
RECURSIVE joinQuery(_)
joinQuery(query) ==
    IF query = << >> THEN ""
    ELSE query[1].name \o "=" \o query[1].value
         \o (IF Len(query) > 1 THEN "&" \o joinQuery(Tail(query)) ELSE "")

\* engine.fetch: the request URL.
engineFetch(from, to, text) == base \o "?" \o joinQuery(queryOf(from, to, text))

\* One element of body.translations; hasText = FALSE is an element with no
\* "text" property.
Tr(t) == [hasText |-> TRUE, text |-> t]
NoText == [hasText |-> FALSE, text |-> ""]
\* A response body; hasTranslations = FALSE is a body with no
\* "translations" property (for example DeepL's {"message": ...}).
Body(trs) == [hasTranslations |-> TRUE, translations |-> trs]
NoTranslations == [hasTranslations |-> FALSE, translations |-> << >>]

\* The response bodies the provider may answer with.
GoodBodies ==
    { Body(<<Tr("hola")>>), Body(<<Tr(" hola ")>>),
      Body(<<Tr("hola"), Tr("adios")>>) }
BadBodies ==
    { Body(<<Tr("")>>), Body(<<NoText>>), Body(<< >>), NoTranslations }
Bodies == GoodBodies \cup BadBodies

\* The settled state of a promise.
Fulfilled(v) == [state |-> "fulfilled", value |-> v, reason |-> ""]
Rejected(r) == [state |-> "rejected", value |-> "", reason |-> r]
Unsettled == [state |-> "pending", value |-> "", reason |-> ""]

engineParse_lastTranslation(body) ==
    IF ~body.hasTranslations \/ Len(body.translations) = 0
    THEN Rejected("TypeError")
    ELSE LET t == body.translations[Len(body.translations)]
         IN IF ~t.hasText \/ t.text = ""
            THEN Rejected("Invalid Translation!")
            ELSE Fulfilled(t.text)

engineParse_onlyUndefined(body) ==
    IF ~body.hasTranslations \/ Len(body.translations) = 0
    THEN Rejected("TypeError")
    ELSE LET t == body.translations[1]
         IN IF ~t.hasText
            THEN Rejected("Invalid Translation!")
            ELSE Fulfilled(t.text)

\* engine.parse on a parsed JSON body: body.translations[0].text, a
\* TypeError when body.translations or its first element is undefined,
\* 'Invalid Translation!' when the text is falsy.
engineParse(body) ==
    IF ~body.hasTranslations \/ Len(body.translations) = 0
    THEN Rejected("TypeError")
    ELSE LET t == body.translations[1]
         IN IF ~t.hasText \/ t.text = ""
            THEN Rejected("Invalid Translation!")
            ELSE Fulfilled(t.text)

\* fetch(url, {method: 'POST', headers}) as the host answers it: the
\* request fails, or a response arrives whose body is JSON or is not.
NetworkError == [kind |-> "network_error", body |-> NoTranslations]
NotJson == [kind |-> "not_json", body |-> NoTranslations]
Json(body) == [kind |-> "json", body |-> body]
Responses == {NetworkError, NotJson} \cup {Json(b) : b \in Bodies}
\* The answers drawn for the translations that the button starts: the
\* request fails, the translation is empty, the translation is "hola".
ButtonResponses ==
    {NetworkError, Json(Body(<<Tr("")>>)), Json(Body(<<Tr("hola")>>))}

fetchThenParse_swallowing(response) ==
    CASE response.kind = "network_error" -> Fulfilled("")
      [] response.kind = "not_json" -> Rejected("SyntaxError")
      [] OTHER -> engineParse(response.body)

\* fetch(...).then(engine.parse): a rejected fetch skips engine.parse, a
\* body that is not JSON makes res.json() reject.
fetchThenParse(response) ==
    CASE response.kind = "network_error" -> Rejected("NetworkError")
      [] response.kind = "not_json" -> Rejected("SyntaxError")
      [] OTHER -> engineParse(response.body)

\* The Authorization header: the template literal renders an unset key as
\* "undefined".
authorization(st) ==
    "DeepL-Auth-Key "
    \o (IF st.deeplApiKey = << >> THEN "undefined" ELSE st.deeplApiKey[1])

\* The one request translate() hands to fetch.
Request(url, query, st) ==
    [method |-> "POST", url |-> url, query |-> query,
     authorization |-> authorization(st)]

requestsAfter_retrying(requests, response) ==
    IF response.kind = "network_error"
    THEN Append(requests, requests[1])
    ELSE requests

\* The requests of a call once fetch has settled: the promise chain ends
\* with engine.parse, nothing is sent again.
requestsAfter(requests, response) == requests

\* ------------------------------------------------------ languages, labels
\* LanguageNames: language name -> ISO code (names zipped with iso).
LanguageNames(language) ==
    CASE language = "detect" -> "null"
      [] language = "english" -> "en"
      [] language = "japanese" -> "ja"
      [] OTHER -> "undefined"

toUpperCase(s) ==
    CASE s = "en" -> "EN"
      [] s = "ja" -> "JA"
      [] s = "null" -> "NULL"
      [] OTHER -> s

\* Format.string: the display form of a language name.
FormatString(language) ==
    CASE language = "english" -> "English"
      [] language = "japanese" -> "Japanese"
      [] language = "detect" -> "Detect"
      [] OTHER -> language

\* Translate.string(text, {fromLanguage, toLanguage}, languages, cancel):
\* with cancel the text is handed back and no request is made; otherwise
\* the promise of translate(text, {fromLang, toLang}).
TranslateString(text, cancel, response) ==
    IF cancel THEN Fulfilled(text) ELSE fetchThenParse(response)

\* ------------------------------------------------------------ revert cache
\* One element of cachedData, the object {[id]: content}; uid stands for the
\* object's identity (!== compares identities, not keys).
Entry(uid, id, content) == [uid |-> uid, id |-> id, content |-> content]
InvalidEntry == Entry(0, "invalid_id", "rosie sucks")

RECURSIVE SelectFirst(_, _)
\* Array.prototype.find for a key: the first element, as a sequence of
\* length 0 (undefined) or 1.
SelectFirst(list, id) ==
    IF list = << >> THEN << >>
    ELSE IF Head(list).id = id THEN <<Head(list)>>
    ELSE SelectFirst(Tail(list), id)

findCached_byContent(cache, messageId) ==
    IF \E i \in 1..Len(cache) : cache[i].content = messageId
    THEN <<cache[CHOOSE i \in 1..Len(cache) : cache[i].content = messageId]>>
    ELSE << >>

\* cachedData.find(o => Object.keys(o)[0] === messageId)
findCached(cache, messageId) == SelectFirst(cache, messageId)

\* translateType = existingCachedObject ? "Revert" : "Translate"
translateTypeOf(existing) ==
    IF existing # << >> THEN "Revert" ELSE "Translate"

unshift_push(cache, entry) == Append(cache, entry)

\* cachedData.unshift({[messageId]: messageContent})
unshift(cache, entry) == <<entry>> \o cache

filterOut_shift(cache, existing) == Tail(cache)

\* cachedData.filter(e => e !== existingCachedObject)
filterOut(cache, existing) ==
    SelectSeq(cache, LAMBDA e : e.uid # existing.uid)

\* ------------------------------------------------------------- the state
VARIABLES
    cachedData,   \* the revert cache, most recent first
    store,        \* MessageStore: message id -> [present, content]
    settings,     \* the plugin's settings store
    patched,      \* the action-sheet patch of onStart is installed
    commands,     \* Dislate.commands
    sheet,        \* the message long-press sheet now rendered
    pending,      \* unsettled Translate.string promises with their closures
    presses,      \* tickets handed out to presses of the button
    dispatched,   \* MESSAGE_UPDATE events dispatched by the button
    toasts,       \* toasts opened by the button
    thrown,       \* the exception the last handler raised, "" when none
    last,         \* the promise that settled last, and how
    call,         \* one call of translate(), from its arguments to its result
    start,        \* the last run of onStart: what threw and what it did
    host,         \* the host's action sheets and the hooks on their content
    panel         \* the settings panel: the pages pushed and the last toast

otherVars == <<start, host, panel>>
vars == <<cachedData, store, settings, patched, commands, sheet, pending,
          presses, dispatched, toasts, thrown, last, call, otherVars>>
sheetVars == <<cachedData, store, settings, patched, commands, sheet,
               pending, presses, dispatched, toasts, thrown, last>>

\* Messages of the channel.  m1 and m2 are in the MessageStore with text,
\* m3 is rendered but absent from the store, m4 has no text (an attachment).
MessageIds == {"m1", "m2", "m3", "m4"}
InitialStore ==
    [m \in MessageIds |->
        CASE m = "m1" -> [present |-> TRUE, content |-> "hello"]
          [] m = "m2" -> [present |-> TRUE, content |-> "hi there"]
          [] m = "m3" -> [present |-> FALSE, content |-> ""]
          [] OTHER -> [present |-> TRUE, content |-> ""]]

\* message[0].message of a render: the message as the host renders it.
renderArg(st, m) ==
    [id |-> m,
     content |-> IF st[m].present THEN st[m].content
                 ELSE IF m = "m3" THEN "a&b" ELSE ""]

\* Miscellaneous.externalPlugins: the keys of the buttons that plugins add.
dislateKey == "dislate"
externalPlugins == {dislateKey, "messagespoofer", "copyembed"}
\* I18N.Messages.MESSAGE_ACTION_REPLY and EDIT_MESSAGE
MESSAGE_ACTION_REPLY == "Reply"
EDIT_MESSAGE == "Edit Message"

Button(key, label) == [key |-> key, label |-> label]
\* The render results of the sheet: res without props, res with no button
\* list in it, and res with a button list.
ButtonLists ==
    { <<Button("copyembed", "Copy Embed"), Button("reply", "Reply"),
        Button("copy", "Copy Text")>> }
Res(kind, list) == [kind |-> kind, list |-> list]
RenderResults ==
    {Res("noprops", << >>), Res("nolist", << >>)}
        \cup {Res("list", l) : l \in ButtonLists}

\* last: op is "translated", "reverted" or "rejected"; press and id name the
\* promise; cached is the text its cache entry holds; had tells whether the
\* entry a revert closed over was still in the cache when it settled.
NoLast == [op |-> "none", press |-> 0, id |-> "", cached |-> "", had |-> FALSE]
Did(op, press, id, cached, had) ==
    [op |-> op, press |-> press, id |-> id, cached |-> cached, had |-> had]

NoSheet == [buttons |-> << >>, closure |-> << >>]
IdleCall ==
    [pc |-> "idle", text |-> "", from |-> "", to |-> "", url |-> "",
     requests |-> << >>, result |-> Unsettled, response |-> NetworkError]

\* onStart has not run.
NoStart ==
    [pc |-> "idle", throwing |-> {}, attempt |-> 0, installed |-> FALSE,
     caught |-> "none", timers |-> << >>, gaveUp |-> FALSE, escaped |-> "",
     startToasts |-> 0]
\* The host: the first three digits of its version, the long-press menus
\* opened so far, the hooks installed on sheet content elements in the order
\* of their installation, the menu open whose content was patched last, and
\* the render of the sheet under study: its message, its render result and
\* whether patchActionSheet has run on it; and the sheetKey of the sheet the
\* host rendered last.
NoRender == [m |-> "", res |-> Res("none", << >>), done |-> FALSE]
NoHost ==
    [version |-> 0, opens |-> 0, hooks |-> << >>, patchedOpen |-> 0,
     render |-> NoRender, sheetKey |-> ""]
\* The local stores: the names of the items in Storage, the list kept under
\* dislate_store_state (a sequence of length 0 when the key is absent, else
\* of length 1 holding the list), the settings the list may name (<< >>
\* when unset, else the value in a sequence of length 1), the
\* removals Storage has not carried out yet, and the Clear Stores handler:
\* its position, the list it read, what the stores were when it was pressed,
\* whether a Clear Stores had finished with no registration since (clean),
\* whether that was so at the press (second), and whether an item was
\* registered since the press (dirty).
NoStores ==
    [storage |-> {}, state |-> << >>,
     flags |-> [n \in {"incompatible_notice", "dialog_hidden"} |-> << >>],
     queue |-> << >>, pc |-> "idle", items |-> << >>,
     before |-> [storage |-> {},
                 flags |-> [n \in {"incompatible_notice", "dialog_hidden"}
                               |-> << >>]],
     clean |-> FALSE, second |-> FALSE, dirty |-> FALSE]
\* The debug Info page as it mounts: no option fetched yet, an empty search
\* query, no option's setting true, nothing sent.
NoSent == [type |-> "none", options |-> << >>]
NoInfo == [options |-> << >>, query |-> "", chosen |-> {}, sent |-> NoSent]
NoPanel ==
    [pages |-> << >>, toast |-> "", stores |-> NoStores, info |-> NoInfo]

\* The settings as they are before the user changes any: every get and
\* getBoolean falls back to its default; the filter has never been set.
DefaultSettings ==
    [DislateLangFrom |-> "detect", DislateLangTo |-> "english",
     DislateLangAbbr |-> FALSE, DislateBothLangToggle |-> FALSE,
     toastEnable |-> FALSE, DislateLangFilter |-> << >>,
     deeplApiKey |-> <<"key-1">>]

\* Everything but the settings, as it is after the plugin's construction.
InitRest ==
    /\ cachedData = <<InvalidEntry>>
    /\ store = InitialStore
    /\ start = NoStart
    /\ host = NoHost
    /\ panel = NoPanel
    /\ patched = FALSE
    /\ commands = << >>
    /\ sheet = NoSheet
    /\ pending = << >>
    /\ presses = 0
    /\ dispatched = 0
    /\ toasts = 0
    /\ thrown = ""
    /\ last = NoLast
    /\ call = IdleCall

Init == settings = DefaultSettings /\ InitRest

\* ------------------------------------------------------- patchActionSheet
\* buttonOffset: one for every other plugin's key found in the list, one for
\* a Reply entry and one for an Edit entry.
buttonOffsetOf_perEntry(list) ==
    Cardinality({i \in 1..Len(list) :
                    list[i].key \in externalPlugins \ {dislateKey}})
      + (IF \E i \in 1..Len(list) : list[i].label = MESSAGE_ACTION_REPLY
         THEN 1 ELSE 0)
      + (IF \E i \in 1..Len(list) : list[i].label = EDIT_MESSAGE
         THEN 1 ELSE 0)

buttonOffsetOf(list) ==
    Cardinality({k \in externalPlugins \ {dislateKey} :
                    \E i \in 1..Len(list) : list[i].key = k})
      + (IF \E i \in 1..Len(list) : list[i].label = MESSAGE_ACTION_REPLY
         THEN 1 ELSE 0)
      + (IF \E i \in 1..Len(list) : list[i].label = EDIT_MESSAGE
         THEN 1 ELSE 0)

\* finalLocation.splice(buttonOffset, 0, mainElement)
splice(list, offset, element) ==
    LET n == IF offset > Len(list) THEN Len(list) ELSE offset
    IN SubSeq(list, 1, n) \o <<element>> \o SubSeq(list, n + 1, Len(list))

noContent_absentOnly(original, arg) ==
    ~original.present /\ arg.content = ""

\* !originalMessage?.content && !message[0]?.message?.content
noContent(original, arg) ==
    (~original.present \/ original.content = "") /\ arg.content = ""

\* What the button's onPress closes over.
Closure(original, arg, cache) ==
    LET messageId == arg.id
        messageContent ==
            IF original.present THEN original.content ELSE arg.content
        existing == findCached(cache, messageId)
    IN [messageId |-> messageId,
        messageContent |-> messageContent,
        hasOriginal |-> original.present,
        text |-> original.content,
        existing |-> existing,
        translateType |-> translateTypeOf(existing)]

\* The sheet that patchActionSheet leaves: the button list as it was when
\* a guard returns early, else the list with the entry spliced in and the
\* closure of its onPress.
sheetAfter(m, res, st, cache) ==
    LET original == st[m]
        arg == renderArg(st, m)
        c == Closure(original, arg, cache)
    IN IF res.kind # "list" \/ noContent(original, arg)
       THEN [buttons |-> res.list, closure |-> << >>]
       ELSE [buttons |-> splice(res.list, buttonOffsetOf(res.list),
                                Button(dislateKey, c.translateType)),
             closure |-> <<c>>]

\* The host renders the long-press sheet of message m with render result
\* res, and the installed hook runs patchActionSheet on it.
patchActionSheet(m, res) ==
    /\ patched
    /\ sheet' = sheetAfter(m, res, store, cachedData)
    /\ thrown' = ""
    /\ UNCHANGED <<cachedData, store, settings, patched, commands, pending,
                   presses, dispatched, toasts, last, call, otherVars>>

\* ----------------------------------------------------------------- onPress
\* The user presses the injected button.  originalMessage.content raises a
\* TypeError when the message is absent from the store; otherwise
\* Translate.string is called and the sheet is hidden.
onPress ==
    /\ sheet.closure # << >>
    /\ LET c == sheet.closure[1]
       IN IF ~c.hasOriginal
          THEN /\ thrown' = "TypeError"
               /\ UNCHANGED <<sheet, pending, presses>>
          ELSE /\ presses < MaxPresses
               /\ Len(pending) < MaxPending
               /\ presses' = presses + 1
               /\ pending' = Append(pending,
                      [press |-> presses + 1,
                       messageId |-> c.messageId,
                       messageContent |-> c.messageContent,
                       text |-> c.text,
                       existing |-> c.existing,
                       isTranslated |-> (c.translateType = "Translate"),
                       fromLanguage |-> settings.DislateLangFrom,
                       toLanguage |-> settings.DislateLangTo])
               /\ sheet' = NoSheet
               /\ thrown' = ""
    /\ UNCHANGED <<cachedData, store, settings, patched, commands,
                   dispatched, toasts, last, call, otherVars>>

\* The backquote of the label's markdown, which a TLA+ string cannot hold,
\* is written as an apostrophe.
backquote == "'"

languageLabel_lowerCase(p, st) ==
    IF st.DislateLangAbbr
    THEN LanguageNames(p.toLanguage)
    ELSE FormatString(p.toLanguage)

\* The label put after a translation.
languageLabel(p, st) ==
    IF st.DislateLangAbbr
    THEN toUpperCase(LanguageNames(p.toLanguage))
    ELSE FormatString(p.toLanguage)

\* editEvent.message.content, the template literal
\*   ${isTranslated ? res : cached} ${isTranslated ? label : ""}
\* whose two parts are always joined by one space.
editContent(p, res, st) ==
    (IF p.isTranslated THEN res ELSE p.existing[1].content)
        \o " "
        \o (IF p.isTranslated
            THEN backquote \o "[" \o languageLabel(p, st) \o "]" \o backquote
            ELSE "")

\* FluxDispatcher.dispatch(editEvent): the store takes the new content.
dispatchEdit(st, p, content) ==
    [st EXCEPT ![p.messageId] = [present |-> TRUE, content |-> content]]

\* isTranslated ? cachedData.unshift(...) : cachedData = cachedData.filter(...)
cacheAfter(cache, p) ==
    IF p.isTranslated
    THEN unshift(cache, Entry(p.press, p.messageId, p.messageContent))
    ELSE filterOut(cache, p.existing[1])

cacheOnRejection_unshift(cache, p) ==
    unshift(cache, Entry(p.press, p.messageId, p.messageContent))

\* A rejected promise has no handler: .then(res => ...) has no second
\* argument and no catch follows.
cacheOnRejection(cache, p) == cache

removeAt(list, i) == SubSeq(list, 1, i - 1) \o SubSeq(list, i + 1, Len(list))

\* The promise of pending[i] settles with result: the then-callback runs
\* when it is fulfilled, nothing runs when it is rejected.
settle(i, result) ==
    LET p == pending[i]
    IN /\ pending' = removeAt(pending, i)
       /\ thrown' = ""
       /\ IF result.state = "fulfilled"
          THEN LET content == editContent(p, result.value, settings)
               IN /\ store' = dispatchEdit(store, p, content)
                  /\ dispatched' = dispatched + 1
                  /\ toasts' = toasts + 1
                  /\ cachedData' = cacheAfter(cachedData, p)
                  /\ last' = Did(IF p.isTranslated THEN "translated"
                                 ELSE "reverted",
                                 p.press, p.messageId,
                                 IF p.isTranslated THEN p.messageContent
                                 ELSE p.existing[1].content,
                                 /\ p.existing # << >>
                                 /\ \E k \in 1..Len(cachedData) :
                                        cachedData[k] = p.existing[1])
          ELSE /\ cachedData' = cacheOnRejection(cachedData, p)
               /\ last' = Did("rejected", p.press, p.messageId,
                              p.messageContent, FALSE)
               /\ UNCHANGED <<store, dispatched, toasts>>
       /\ UNCHANGED <<settings, patched, commands, sheet, presses, call, otherVars>>

\* The request of a pending translation is answered.
translationSettles(i, response) ==
    /\ i \in 1..Len(pending)
    /\ pending[i].isTranslated
    /\ settle(i, TranslateString(pending[i].text, FALSE, response))

\* The promise of a pending revert is fulfilled.
revertSettles(i) ==
    /\ i \in 1..Len(pending)
    /\ ~pending[i].isTranslated
    /\ settle(i, TranslateString(pending[i].text, TRUE, NetworkError))

\* ---------------------------------------------------------- onStart, onStop
maxAttempts == 3

\* The calls of onStart that may throw, by the line of the call.
CallSites ==
    {"getBoolean179", "dispatch181", "toast191", "patcher198", "toast230",
     "getBoolean238", "toast244", "toast254"}

\* The outcome of a run of onStart.
Outcome(attempt, installed, caught, timers, gaveUp, escaped, startToasts) ==
    [attempt |-> attempt, installed |-> installed, caught |-> caught,
     timers |-> timers, gaveUp |-> gaveUp, escaped |-> escaped,
     startToasts |-> startToasts]

\* The top-level catch block.  With attempts left it evaluates
\* this.initializeActionSheet(), the argument of setTimeout, first: Dislate
\* has no such method, so a TypeError escapes and setTimeout is never
\* called.  Without attempts left it gives up.  opened counts the toasts
\* opened so far.
topLevelCatch(throwing, attempt, opened, st) ==
    LET enableToasts == st.toastEnable
        after == IF enableToasts THEN opened + 1 ELSE opened
    IN IF "getBoolean238" \in throwing
       THEN Outcome(attempt, FALSE, "top", << >>, FALSE, "getBoolean", opened)
       ELSE IF attempt < maxAttempts
       THEN IF enableToasts /\ "toast244" \in throwing
            THEN Outcome(attempt, FALSE, "top", << >>, FALSE, "Toasts.open",
                         opened)
            ELSE Outcome(attempt, FALSE, "top", << >>, FALSE, "TypeError",
                         after)
       ELSE IF enableToasts /\ "toast254" \in throwing
            THEN Outcome(attempt, FALSE, "top", << >>, TRUE, "Toasts.open",
                         opened)
            ELSE Outcome(attempt, FALSE, "top", << >>, TRUE, "", after)

\* One run of onStart, from "let attempt = 0" to its end, when the calls in
\* throwing throw: attempt++ makes attempt 1; an exception of
\* FluxDispatcher.dispatch is caught on the spot, one of Patcher.after in
\* the inner catch ("intermediate level"), every other one in the top-level
\* catch.
installAttempt(throwing, st) ==
    LET attempt == 0 + 1
        enableToasts == st.toastEnable
    IN IF "getBoolean179" \in throwing
       THEN topLevelCatch(throwing, attempt, 0, st)
       ELSE IF ~enableToasts
       THEN IF "patcher198" \in throwing
            THEN Outcome(attempt, FALSE, "intermediate", << >>, FALSE, "", 0)
            ELSE Outcome(attempt, TRUE, "none", << >>, FALSE, "", 0)
       ELSE IF "toast191" \in throwing
       THEN topLevelCatch(throwing, attempt, 0, st)
       ELSE IF "patcher198" \in throwing
       THEN IF "toast230" \in throwing
            THEN topLevelCatch(throwing, attempt, 1, st)
            ELSE Outcome(attempt, FALSE, "intermediate", << >>, FALSE, "", 2)
       ELSE Outcome(attempt, TRUE, "none", << >>, FALSE, "", 1)

\* The record of a run in the variable start.
startRecord(throwing, r) ==
    [pc |-> "done", throwing |-> throwing, attempt |-> r.attempt,
     installed |-> r.installed, caught |-> r.caught, timers |-> r.timers,
     gaveUp |-> r.gaveUp, escaped |-> r.escaped,
     startToasts |-> r.startToasts]

\* The calls that throw in a run of onStart, by the kind of failure.
sitesOf(failure) ==
    CASE failure = "patcher" -> {"patcher198"}
      [] failure = "toplevel" -> {"getBoolean179"}
      [] OTHER -> {}

\* onStart: the commands are set and the patch is installed.  Patcher.after
\* may throw (caught at the intermediate level); an exception of the outer
\* try block reaches the top-level handler with attempt = 1, whose
\* this.initializeActionSheet() is not a function.
onStart(failure) ==
    /\ commands = << >>
    /\ commands' = <<"DebugCommand", "TranslateCommand">>
    /\ patched' = installAttempt(sitesOf(failure), settings).installed
    /\ thrown' = installAttempt(sitesOf(failure), settings).escaped
    /\ UNCHANGED <<cachedData, store, settings, sheet, pending, presses,
                   dispatched, toasts, last, call, otherVars>>

cacheAfterStop_clearing(cache) == << >>

\* What onStop leaves of the cache: it does not touch cachedData.
cacheAfterStop(cache) == cache

\* onStop: Patcher.unpatchAll() and commands = [].
onStop ==
    /\ commands # << >>
    /\ commands' = << >>
    /\ patched' = FALSE
    /\ cachedData' = cacheAfterStop(cachedData)
    /\ thrown' = ""
    /\ host' = [host EXCEPT !.hooks = << >>]
    /\ UNCHANGED <<store, settings, sheet, pending, presses, dispatched,
                   toasts, last, call, start, panel>>

Next ==
    \/ \E m \in MessageIds, res \in RenderResults : patchActionSheet(m, res)
    \/ onPress
    \/ \E i \in 1..MaxPending, response \in ButtonResponses :
          translationSettles(i, response)
    \/ \E i \in 1..MaxPending : revertSettles(i)
    \/ \E failure \in {"none", "patcher", "toplevel"} : onStart(failure)
    \/ onStop

Spec == Init /\ [][Next]_vars

\* ------------------------------------------------------- translate() alone
\* translate(text, {fromLang, toLang}) is called: the URL is built and one
\* POST request is sent.
translateCall(text, fromLang, toLang) ==
    /\ call.pc = "idle"
    /\ call' = [pc |-> "fetching", text |-> text, from |-> fromLang,
                to |-> toLang, url |-> engineFetch(fromLang, toLang, text),
                requests |-> <<Request(engineFetch(fromLang, toLang, text),
                                       queryOf(fromLang, toLang, text),
                                       settings)>>,
                result |-> Unsettled, response |-> NetworkError]
    /\ UNCHANGED <<sheetVars, otherVars>>

\* The request is answered and fetch(...).then(engine.parse) settles.
translateSettles(response) ==
    /\ call.pc = "fetching"
    /\ call' = [call EXCEPT !.pc = "settled",
                            !.result = fetchThenParse(response),
                            !.requests = requestsAfter(call.requests, response),
                            !.response = response]
    /\ UNCHANGED <<sheetVars, otherVars>>

NextTranslate ==
    \/ \E text \in Texts, fromLang \in FromCodes, toLang \in ToCodes :
          translateCall(text, fromLang, toLang)
    \/ \E response \in Responses : translateSettles(response)

\* translate() is called with the API key unset (a fresh install) or set.
InitTranslate ==
    /\ settings \in {DefaultSettings,
                     [DefaultSettings EXCEPT !.deeplApiKey = << >>]}
    /\ InitRest

SpecTranslate == InitTranslate /\ [][NextTranslate]_vars

\* ---------------------------------------------------- the settings panel
\* The switches of the panel.
Switches == {"DislateLangAbbr", "DislateBothLangToggle", "toastEnable"}

\* settings.toggle(key, false)
toggle(st, key) == [st EXCEPT ![key] = ~st[key]]

\* The toast of a switch, from settings.getBoolean(key, false).
switchToast_stale(before, after, key) ==
    CASE key = "DislateLangAbbr" ->
            "Successfully "
                \o (IF before[key] THEN "enabled" ELSE "disabled")
                \o " language abbreviations."
      [] key = "DislateBothLangToggle" ->
            "Now sending "
                \o (IF before[key] THEN "original and translated"
                    ELSE "only translated")
                \o " message."
      [] OTHER ->
            "Successfully "
                \o (IF before[key] THEN "enabled" ELSE "disabled")
                \o " Load Toasts."

\* The toast content of a switch: the template reads the setting again,
\* after the toggle.
switchToast(before, after, key) ==
    CASE key = "DislateLangAbbr" ->
            "Successfully "
                \o (IF after[key] THEN "enabled" ELSE "disabled")
                \o " language abbreviations."
      [] key = "DislateBothLangToggle" ->
            "Now sending "
                \o (IF after[key] THEN "original and translated"
                    ELSE "only translated")
                \o " message."
      [] OTHER ->
            "Successfully "
                \o (IF after[key] THEN "enabled" ELSE "disabled")
                \o " Load Toasts."

\* onValueChange of the switch of key.
onValueChange(key) ==
    /\ settings' = toggle(settings, key)
    /\ panel' = [panel EXCEPT
                   !.toast = switchToast(settings, toggle(settings, key), key)]
    /\ UNCHANGED <<cachedData, store, patched, commands, sheet, pending,
                   presses, dispatched, toasts, thrown, last, call, start,
                   host>>

\* The rows that open the Languages page.
Rows == {"Translate From", "Translate To"}

filterOfRow_from(row) == FALSE

\* The value the row's onPress stores in DislateLangFilter.
filterOfRow(row) == row = "Translate To"

\* The name the pushed page is given: name of the plugin, colon, the side.
pageOfRow(row) ==
    "Dislate: " \o (IF row = "Translate To" THEN "Language To"
                    ELSE "Language From")

\* onPress of a row: set(name, "DislateLangFilter", ...), then
\* Navigation.push(Page, {component: Languages, name: ...}).
rowPress(row) ==
    /\ Len(panel.pages) < MaxPages
    /\ settings' = [settings EXCEPT !.DislateLangFilter = <<filterOfRow(row)>>]
    /\ panel' = [panel EXCEPT !.pages = Append(panel.pages, pageOfRow(row))]
    /\ UNCHANGED <<cachedData, store, patched, commands, sheet, pending,
                   presses, dispatched, toasts, thrown, last, call, start,
                   host>>

\* The user leaves the page on top of the stack.
goBack ==
    /\ panel.pages # << >>
    /\ panel' = [panel EXCEPT
                   !.pages = SubSeq(panel.pages, 1, Len(panel.pages) - 1)]
    /\ UNCHANGED <<sheetVars, call, start, host>>

NextSettings ==
    \/ \E key \in Switches : onValueChange(key)
    \/ \E row \in Rows : rowPress(row)
    \/ goBack

SpecSettings == Init /\ [][NextSettings]_vars

\* ------------------------------------------- patchActionSheet on any list
\* The entries a rendered button list is made of: buttons of the other
\* known plugins, Reply, Edit and an entry that counts for nothing.
PatchButtons ==
    {Button("copyembed", "Copy Embed"), Button("messagespoofer", "Spoof"),
     Button("reply", MESSAGE_ACTION_REPLY), Button("edit", EDIT_MESSAGE),
     Button("copy", "Copy Text")}
PatchLists == UNION {[1..n -> PatchButtons] : n \in 1..MaxButtons}
PatchResults ==
    {Res("noprops", << >>), Res("nolist", << >>)}
        \cup {Res("list", l) : l \in PatchLists}

\* The host renders the sheet of host.render.m with the result
\* host.render.res, and patchActionSheet runs on it.
sheetPatched ==
    /\ patched
    /\ ~host.render.done
    /\ sheet' = sheetAfter(host.render.m, host.render.res, store, cachedData)
    /\ host' = [host EXCEPT !.render.done = TRUE]
    /\ thrown' = ""
    /\ UNCHANGED <<cachedData, store, settings, patched, commands, pending,
                   presses, dispatched, toasts, last, call, start, panel>>

NextPatch ==
    \/ \E failure \in {"none", "patcher", "toplevel"} : onStart(failure)
    \/ onStop
    \/ sheetPatched

\* The render the host is going to make: any message, any render result.
InitPatch ==
    /\ host \in {[NoHost EXCEPT !.render =
                     [m |-> m, res |-> res, done |-> FALSE]] :
                     m \in MessageIds, res \in PatchResults}
    /\ settings = DefaultSettings
    /\ cachedData = <<InvalidEntry>>
    /\ store = InitialStore
    /\ start = NoStart
    /\ panel = NoPanel
    /\ patched = FALSE
    /\ commands = << >>
    /\ sheet = NoSheet
    /\ pending = << >>
    /\ presses = 0
    /\ dispatched = 0
    /\ toasts = 0
    /\ thrown = ""
    /\ last = NoLast
    /\ call = IdleCall

SpecPatch == InitPatch /\ [][NextPatch]_vars

\* ------------------------------------------------------------ Clear Stores
\* The items the plugin may register for clearing: a name and a type.
Item(name, type) == [name |-> name, type |-> type]
StoreItems ==
    {Item("device_list", "storage"), Item("incompatible_notice", "setting"),
     Item("dialog_hidden", "setting")}

\* An item is registered: its value is stored under its name, in Storage or
\* as a setting, and the item is listed under dislate_store_state once.
registerItem(item) ==
    LET st == panel.stores
        listed == IF st.state = << >> THEN << >> ELSE st.state[1]
    IN /\ (\A i \in 1..Len(listed) : listed[i] # item)
          \/ (item.type = "storage" /\ item.name \notin st.storage)
          \/ (item.type # "storage" /\ st.flags[item.name] # <<TRUE>>)
       /\ panel' = [panel EXCEPT !.stores =
            [st EXCEPT
               !.storage = IF item.type = "storage"
                           THEN st.storage \cup {item.name} ELSE st.storage,
               !.flags = IF item.type = "storage" THEN st.flags
                         ELSE [st.flags EXCEPT ![item.name] = <<TRUE>>],
               !.state = IF \E i \in 1..Len(listed) : listed[i] = item
                         THEN <<listed>> ELSE <<Append(listed, item)>>,
               !.clean = FALSE,
               !.dirty = TRUE]]
       /\ UNCHANGED <<sheetVars, call, start, host>>

\* onPress of Clear Stores up to its first await: Storage.getItem is called.
clearPress ==
    /\ panel.stores.pc = "idle"
    /\ panel' = [panel EXCEPT !.stores =
            [panel.stores EXCEPT
               !.pc = "reading",
               !.before = [storage |-> panel.stores.storage,
                           flags |-> panel.stores.flags],
               !.second = panel.stores.clean,
               !.clean = FALSE,
               !.dirty = FALSE]]
    /\ UNCHANGED <<sheetVars, call, start, host>>

\* JSON.parse(await Storage.getItem("dislate_store_state")) ?? []
storeItemsOf(state) == IF state = << >> THEN << >> ELSE state[1]

removalsOf_none(items) == << >>

\* The Storage.removeItem calls of the loop, in the order of the list: one
\* for every item of type 'storage'.
removalsOf(items) ==
    LET storageItems == SelectSeq(items, LAMBDA item : item.type = "storage")
    IN [i \in 1..Len(storageItems) |-> storageItems[i].name]

\* The settings after the loop: set(name, item.name, false) for every item
\* of another type.
flagsAfter(flags, items) ==
    [n \in DOMAIN flags |->
        IF \E i \in 1..Len(items) :
              items[i].type # "storage" /\ items[i].name = n
        THEN <<FALSE>> ELSE flags[n]]

\* getItem has answered: the loop calls the callback for every item, which
\* calls Storage.removeItem or set; then Storage.removeItem is called for
\* dislate_store_state and awaited.
clearLoops ==
    /\ panel.stores.pc = "reading"
    /\ LET st == panel.stores
           items == storeItemsOf(st.state)
       IN panel' = [panel EXCEPT !.stores =
            [st EXCEPT
               !.pc = "removing",
               !.items = items,
               !.flags = flagsAfter(st.flags, items),
               !.queue = st.queue \o removalsOf(items)
                            \o <<"dislate_store_state">>]]
    /\ UNCHANGED <<sheetVars, call, start, host>>

\* Storage carries out the removal it was asked for first.  When that is
\* the removal of dislate_store_state the handler goes on: it opens the
\* toast and returns.
storageRemoves ==
    /\ panel.stores.queue # << >>
    /\ LET st == panel.stores
           key == Head(st.queue)
           final == key = "dislate_store_state"
       IN panel' = [panel EXCEPT
            !.toast = IF final THEN "Cleared all Dislate stores." ELSE @,
            !.stores =
               [st EXCEPT
                  !.queue = Tail(st.queue),
                  !.storage = st.storage \ {key},
                  !.state = IF final THEN << >> ELSE st.state,
                  !.pc = IF final THEN "idle" ELSE st.pc,
                  !.clean = IF final THEN ~st.dirty ELSE st.clean]]
    /\ UNCHANGED <<sheetVars, call, start, host>>

NextStores ==
    \/ \E item \in StoreItems : registerItem(item)
    \/ clearPress
    \/ clearLoops
    \/ storageRemoves

SpecStores == Init /\ [][NextStores]_vars

\* ------------------------------------------------------- the debug Info page
\* Object.keys(await fetch_debug_arguments()): the available options.
DebugArguments == <<"Plugin", "Client", "Native">>
\* Texts typed into the search bar.
Queries == {"", "pl", "zz"}

\* The effect of the first mount resolves: setOptions(...).
infoLoads ==
    /\ panel.info.options = << >>
    /\ panel' = [panel EXCEPT !.info.options = DebugArguments]
    /\ UNCHANGED <<sheetVars, call, start, host>>

\* onChangeText of the search bar: setQuery(text).
onChangeText(text) ==
    /\ panel' = [panel EXCEPT !.info.query = text]
    /\ UNCHANGED <<sheetVars, call, start, host>>

\* The user taps an option: its boolean setting is inverted.
toggleOption(option) ==
    /\ \E i \in 1..Len(panel.info.options) : panel.info.options[i] = option
    /\ panel' = [panel EXCEPT !.info.chosen =
                    IF option \in panel.info.chosen
                    THEN panel.info.chosen \ {option}
                    ELSE panel.info.chosen \cup {option}]
    /\ UNCHANGED <<sheetVars, call, start, host>>

chosenOptions_all(options, chosen) == options

\* filter_item(options, item => getBoolean(name, item, false))
chosenOptions(options, chosen) ==
    SelectSeq(options, LAMBDA item : item \in chosen)

\* onPress of Send All: send_debug_log(options, ..., 'full', ...).
sendAll ==
    /\ panel' = [panel EXCEPT !.info.sent =
                    [type |-> "full", options |-> panel.info.options]]
    /\ UNCHANGED <<sheetVars, call, start, host>>

\* onPress of Send Message: send_debug_log(debug_options, ..., 'partial', ...).
sendMessage ==
    /\ panel' = [panel EXCEPT !.info.sent =
                    [type |-> "partial",
                     options |-> chosenOptions(panel.info.options,
                                               panel.info.chosen)]]
    /\ UNCHANGED <<sheetVars, call, start, host>>

NextInfo ==
    \/ infoLoads
    \/ \E text \in Queries : onChangeText(text)
    \/ \E option \in {"Plugin", "Client", "Native"} : toggleOption(option)
    \/ sendAll
    \/ sendMessage

SpecInfo == Init /\ [][NextInfo]_vars

\* ------------------------------------------- the button with the switches
\* The button is used while the user changes the Abbreviate Language
\* switch, with either target language chosen beforehand.
LabelMessages == {"m1", "m2"}
InitLabel ==
    /\ settings \in {DefaultSettings,
                     [DefaultSettings EXCEPT !.DislateLangTo = "japanese"]}
    /\ InitRest

NextLabel ==
    \/ onStart("none")
    \/ \E m \in LabelMessages, l \in ButtonLists :
          patchActionSheet(m, Res("list", l))
    \/ onPress
    \/ \E i \in 1..MaxPending, response \in ButtonResponses :
          translationSettles(i, response)
    \/ \E i \in 1..MaxPending : revertSettles(i)
    \/ onValueChange("DislateLangAbbr")

SpecLabel == InitLabel /\ [][NextLabel]_vars

\* ------------------------------------------------------- onStart in detail
\* onStart with any set of its calls throwing; the run is recorded in start.
onStartRun(throwing) ==
    /\ commands = << >>
    /\ commands' = <<"DebugCommand", "TranslateCommand">>
    /\ LET r == installAttempt(throwing, settings)
       IN /\ start' = startRecord(throwing, r)
          /\ patched' = r.installed
          /\ thrown' = r.escaped
    /\ UNCHANGED <<cachedData, store, settings, sheet, pending, presses,
                   dispatched, toasts, last, call, host, panel>>

NextStart ==
    \/ \E throwing \in SUBSET CallSites : onStartRun(throwing)
    \/ onStop
    \/ onValueChange("toastEnable")

SpecStart == Init /\ [][NextStart]_vars

\* ------------------------------------------- the hooks on the sheet content
\* parseInt(version.substring(0, 3)) of the hosts the plugin runs on.
Versions == {164, 170}
newerHost(version) == version > 164

\* The content elements the host hands to the sheet; the host may pass the
\* same element to several renders of the sheet or a new one to each.
Elements == {"e1", "e2"}
SheetKeys == {"MessageLongPressActionSheet", "UserProfileActionSheet"}
\* A content render that returned nothing.
NullRes == Res("null", << >>)

\* A hook on the "type" of a content element, installed during a menu open
\* by the render of a sheet with a sheetKey.
Hook(open, element, sheetKey) ==
    [open |-> open, element |-> element, sheetKey |-> sheetKey]

installsHook_always(sheetKey) == TRUE

\* FinalLocation?.sheetKey !== "MessageLongPressActionSheet" returns early.
installsHook(sheetKey) == sheetKey = "MessageLongPressActionSheet"

\* The user long-presses a message: the host opens the menu.
menuOpens ==
    /\ host.opens < MaxOpens
    /\ host' = [host EXCEPT !.opens = host.opens + 1]
    /\ UNCHANGED <<sheetVars, call, start, panel>>

\* The callback on ActionSheetFor170: every render of a sheet whose sheetKey
\* is MessageLongPressActionSheet installs a hook on the content's type.
sheetRenders(element, sheetKey) ==
    /\ patched
    /\ newerHost(host.version)
    /\ host.opens > 0
    /\ Len(host.hooks) < MaxHooks
    /\ host' = [host EXCEPT
                   !.sheetKey = sheetKey,
                   !.hooks =
                      IF installsHook(sheetKey)
                      THEN Append(host.hooks,
                                  Hook(host.opens, element, sheetKey))
                      ELSE host.hooks]
    /\ UNCHANGED <<sheetVars, call, start, panel>>

\* The hooks left after the content element has rendered: a hook that fires
\* with a render result calls patchActionSheet, whose first statement is
\* unpatch(); a hook that fires with no result returns before that.
hooksAfter(hooks, element, res) ==
    IF res = NullRes THEN hooks
    ELSE SelectSeq(hooks, LAMBDA h : h.element # element)

\* finalLocation after n hooks have run patchActionSheet on the same render
\* result, one after the other.
RECURSIVE spliceTimes(_, _, _)
spliceTimes(list, n, element) ==
    IF n = 0 THEN list
    ELSE spliceTimes(splice(list, buttonOffsetOf(list), element), n - 1,
                     element)

\* The host renders content element "element" for message m with result
\* res: every hook installed on the element fires.
contentRenders(element, m, res) ==
    /\ patched
    /\ newerHost(host.version)
    /\ LET firing == SelectSeq(host.hooks, LAMBDA h : h.element = element)
           original == store[m]
           arg == renderArg(store, m)
           c == Closure(original, arg, cachedData)
       IN /\ firing # << >>
          /\ host' = [host EXCEPT
                        !.hooks = hooksAfter(host.hooks, element, res),
                        !.patchedOpen = IF res = NullRes THEN host.patchedOpen
                                        ELSE firing[Len(firing)].open]
          /\ IF res = NullRes
             THEN sheet' = sheet
             ELSE IF res.kind # "list" \/ noContent(original, arg)
             THEN sheet' = [buttons |-> res.list, closure |-> << >>]
             ELSE sheet' =
                    [buttons |-> spliceTimes(res.list, Len(firing),
                                     Button(dislateKey, c.translateType)),
                     closure |-> <<c>>]
    /\ thrown' = ""
    /\ UNCHANGED <<cachedData, store, settings, patched, commands, pending,
                   presses, dispatched, toasts, last, call, start, panel>>

\* The callback on ActionSheetFor164: the one hook of older hosts runs
\* patchActionSheet on every render, with an unpatch that does nothing.
sheetRenders164(m, res) ==
    /\ ~newerHost(host.version)
    /\ host.opens > 0
    /\ patchActionSheet(m, res)

NextHooks ==
    \/ \E failure \in {"none", "patcher", "toplevel"} : onStart(failure)
    \/ onStop
    \/ menuOpens
    \/ \E element \in Elements, sheetKey \in SheetKeys :
          sheetRenders(element, sheetKey)
    \/ \E element \in Elements, m \in MessageIds,
          res \in RenderResults \cup {NullRes} :
          contentRenders(element, m, res)
    \/ \E m \in MessageIds, res \in RenderResults : sheetRenders164(m, res)

\* The plugin runs on an older or on a newer host.
InitHooks ==
    /\ host \in {[NoHost EXCEPT !.version = v] : v \in Versions}
    /\ settings = DefaultSettings
    /\ cachedData = <<InvalidEntry>>
    /\ store = InitialStore
    /\ start = NoStart
    /\ panel = NoPanel
    /\ patched = FALSE
    /\ commands = << >>
    /\ sheet = NoSheet
    /\ pending = << >>
    /\ presses = 0
    /\ dispatched = 0
    /\ toasts = 0
    /\ thrown = ""
    /\ last = NoLast
    /\ call = IdleCall

SpecHooks == InitHooks /\ [][NextHooks]_vars

\* ------------------------------------------------------------- properties
\* The first translation of a JSON response, when it has a non-empty text.
hasTranslatedText(response) ==
    /\ response.kind = "json"
    /\ response.body.hasTranslations
    /\ Len(response.body.translations) > 0
    /\ response.body.translations[1].hasText
    /\ response.body.translations[1].text # ""

\* C1: when the response body has a non-empty translations[0].text,
\* translate resolves to exactly that text, for every text and every pair
\* of language codes.
C1_ExactText ==
    (call.pc = "settled" /\ hasTranslatedText(call.response))
        => call.result = Fulfilled(call.response.body.translations[1].text)

\* A call answered with two translations, the first with blanks around it
\* or followed by another one, has settled.
C1_Witness ==
    /\ call.pc = "settled"
    /\ call.response = Json(Body(<<Tr("hola"), Tr("adios")>>))
    /\ call.result.state = "fulfilled"

\* C2: when the response has an empty or missing translated text (empty
\* text, no text, no translations[0]), translate is rejected, and for an
\* empty text the reason is 'Invalid Translation!'.
C2_NoTextFails ==
    (call.pc = "settled" /\ call.response.kind = "json"
        /\ ~hasTranslatedText(call.response))
        => /\ call.result.state = "rejected"
           /\ (call.response.body = Body(<<Tr("")>>)
                  => call.result.reason = "Invalid Translation!")

C2_Witness ==
    /\ call.pc = "settled"
    /\ call.response = Json(Body(<<Tr("")>>))
    /\ call.result.reason = "Invalid Translation!"

\* C3: right after a translation of message M, whose content was C when
\* the button was made, is fulfilled, the head of the cache maps M to C.
C3_HeadAfterTranslate ==
    last.op = "translated"
        => /\ cachedData # << >>
           /\ Head(cachedData).id = last.id
           /\ Head(cachedData).content = last.cached
           /\ Head(cachedData).uid = last.press

C3_Witness ==
    /\ last.op = "translated"
    /\ last.id = "m1"
    /\ last.cached = "hello"
    /\ Len(cachedData) = 2

\* C4: after a revert of message M has completed, the cache holds no entry
\* for M (so the next menu of M shows Translate).
C4_RevertClears ==
    last.op = "reverted" => findCached(cachedData, last.id) = << >>

\* C5: the MESSAGE_UPDATE of a revert sets M's content to exactly the
\* content C that the cache entry recorded before the translation.
C5_RevertRestores ==
    last.op = "reverted" => store[last.id].content = last.cached

\* The step is a patch of the sheet that inserted the button.
buttonInserted == sheet' # sheet /\ sheet'.closure # << >>

\* C6: whenever the menu of a message with content is patched, the entry is
\* labelled Revert if and only if the cache holds an entry keyed by the
\* message's id at that moment, and Translate otherwise.
C6_LabelFollowsCache ==
    [][buttonInserted =>
        LET c == sheet'.closure[1]
            cachedNow == \E k \in 1..Len(cachedData) :
                            cachedData[k].id = c.messageId
        IN /\ c.translateType \in {"Translate", "Revert"}
           /\ (c.translateType = "Revert") <=> cachedNow
           /\ \E k \in 1..Len(sheet'.buttons) :
                 sheet'.buttons[k] = Button(dislateKey, c.translateType)
           /\ Cardinality({k \in 1..Len(sheet'.buttons) :
                              sheet'.buttons[k].key = dislateKey}) = 1]_vars

C6_Witness ==
    /\ sheet.closure # << >>
    /\ sheet.closure[1].translateType = "Revert"
    /\ sheet.closure[1].messageId = "m2"

\* The step settles a promise as rejected.
rejectedStep == last' # last /\ last'.op = "rejected"

staleRevertStep == last' # last /\ last'.op = "reverted" /\ ~last'.had

\* C8: a revert that completes when its cache entry is no longer present
\* leaves the cache unchanged and raises no exception.
C8_StaleRevertNoOp ==
    [][staleRevertStep => (cachedData' = cachedData /\ thrown' = "")]_vars

C8_Witness == last.op = "reverted" /\ ~last.had

\* C9: the cache holds at most one entry per message id.
C9_OneEntryPerId ==
    \A i, j \in 1..Len(cachedData) :
        i # j => cachedData[i].id # cachedData[j].id

\* The entries of the first cache that are also in the second, in order.
surviving(cache, other) ==
    SelectSeq(cache, LAMBDA e : \E k \in 1..Len(other) : other[k] = e)

\* C10: an entry leaves the cache only in a completed revert of its own
\* message, and no step alters or reorders the entries that stay.
C10_NoEviction ==
    [][/\ \A k \in 1..Len(cachedData) :
             (\A j \in 1..Len(cachedData') : cachedData'[j] # cachedData[k])
                 => /\ last' # last
                    /\ last'.op = "reverted"
                    /\ last'.id = cachedData[k].id
       /\ surviving(cachedData', cachedData)
             = surviving(cachedData, cachedData')]_vars

\* A revert of one message has completed while another message's entry
\* stays in the cache, with the plugin stopped.
C10_Witness ==
    /\ last.op = "reverted"
    /\ \E k \in 1..Len(cachedData) :
          cachedData[k].id \in MessageIds \ {last.id}
    /\ commands = << >>

\* An attempt of the last run of onStart threw.
attemptFailed == start.pc = "done" /\ start.caught # "none"

\* C11: when an attempt to install the patch throws and fewer than 3
\* attempts have been made, another attempt is scheduled, delayed by
\* attempt x 10 seconds.
C11_RetryScheduled ==
    (attemptFailed /\ start.attempt < maxAttempts)
        => start.timers = <<start.attempt * 10000>>

\* C12: an installer whose attempts fail and that has nothing scheduled has
\* reached "Giving up", after exactly maxAttempts attempts; no run makes
\* more than maxAttempts attempts.
C12_GivesUpAfterThree ==
    /\ start.attempt <= maxAttempts
    /\ (attemptFailed /\ start.timers = << >>)
          => (start.gaveUp /\ start.attempt = maxAttempts)

sent == call.pc \in {"fetching", "settled"}

\* C13: every call of translate has sent exactly one request, a POST to the
\* built URL whose Authorization header is 'DeepL-Auth-Key <key>', while
\* the request is in flight and after the call has settled, fulfilled or
\* rejected.
C13_OnePostWithKey ==
    sent =>
        /\ Len(call.requests) = 1
        /\ call.requests[1].method = "POST"
        /\ call.requests[1].url = call.url
        /\ call.requests[1].authorization
             = "DeepL-Auth-Key "
               \o (IF settings.deeplApiKey = << >> THEN "undefined"
                   ELSE settings.deeplApiKey[1])
C13_Witness ==
    /\ call.pc = "settled"
    /\ call.response.kind = "network_error"
    /\ Len(call.requests) = 1
    /\ call.requests[1].authorization = "DeepL-Auth-Key key-1"

\* C14: when the request itself fails, translate is rejected with that
\* failure, never fulfilled.
C14_NetworkFailureRejects ==
    (call.pc = "settled" /\ call.response.kind = "network_error")
        => call.result = Rejected("NetworkError")
C14_Witness ==
    /\ call.pc = "settled"
    /\ call.response.kind = "network_error"
    /\ call.result.state = "rejected"

paramsNamed(query, name) == {i \in 1..Len(query) : query[i].name = name}
valueOf(query, name) == query[CHOOSE i \in paramsNamed(query, name) : TRUE].value

\* C15: the URL of a call carries target_lang=<to> and text=<encoded text>
\* once each, carries source_lang=<from> for every code but 'null', and has
\* no source_lang parameter exactly when the code is 'null'; the URL string
\* is these parameters joined after the endpoint.
C15_QueryParameters ==
    sent =>
        LET query == call.requests[1].query
        IN /\ Cardinality(paramsNamed(query, "target_lang")) = 1
           /\ valueOf(query, "target_lang") = call.to
           /\ Cardinality(paramsNamed(query, "text")) = 1
           /\ valueOf(query, "text") = encodeURIComponent(call.text)
           /\ (call.from = "null") <=> (paramsNamed(query, "source_lang") = {})
           /\ call.from # "null" =>
                 /\ Cardinality(paramsNamed(query, "source_lang")) = 1
                 /\ valueOf(query, "source_lang") = call.from
           /\ call.url = base \o "?" \o joinQuery(query)
C15_Witness ==
    /\ sent
    /\ call.text = "a&b"
    /\ call.from = "null"
    /\ call.url = base \o "?target_lang=EN&text=a%26b"

\* C16: on a newer host, once the content of the current menu open has been
\* patched, no content hook installed during an earlier menu open is still
\* installed.
C16_NoStaleHooks ==
    (newerHost(host.version) /\ host.opens > 0
        /\ host.patchedOpen = host.opens)
        => \A i \in 1..Len(host.hooks) : host.hooks[i].open = host.opens

dislateEntries(list) == {i \in 1..Len(list) : list[i].key = dislateKey}

\* C17: after the render of a message with content has been patched, the
\* button list holds exactly one entry with the Dislate key.
C17_OneDislateEntry ==
    sheet.closure # << >> => Cardinality(dislateEntries(sheet.buttons)) = 1

\* The texts a translation started by the button may be fulfilled with.
Translations ==
    {fetchThenParse(r).value :
        r \in {x \in ButtonResponses : fetchThenParse(x).state = "fulfilled"}}
isoUpperOf(language) == IF language = "japanese" THEN "JA" ELSE "EN"
fullNameOf(language) == IF language = "japanese" THEN "Japanese" ELSE "English"
labelled(text, label) == text \o " " \o backquote \o "[" \o label \o "]" \o backquote
Labels == {"EN", "JA", "English", "Japanese", "en", "ja", "english", "japanese"}

\* C18: the content dispatched for a translation is the translation, a
\* space and the bracketed label between backquotes, the label being the
\* upper-case ISO code of the target language when DislateLangAbbr is true
\* as the translation arrives and the formatted language name when it is
\* false; the content dispatched for a revert carries no label.
C18_LabelFollowsAbbr ==
    [][(last' # last /\ last'.op \in {"translated", "reverted"}) =>
        \E i \in 1..Len(pending) :
            /\ pending[i].press = last'.press
            /\ dispatched' = dispatched + 1
            /\ IF last'.op = "translated"
               THEN \E t \in Translations :
                       store'[last'.id].content
                         = labelled(t,
                             IF settings.DislateLangAbbr
                             THEN isoUpperOf(pending[i].toLanguage)
                             ELSE fullNameOf(pending[i].toLanguage))
               ELSE \A l \in Labels :
                       store'[last'.id].content # labelled(last'.cached, l)]_vars
C18_Witness ==
    /\ last.op = "translated"
    /\ settings.DislateLangAbbr
    /\ settings.DislateLangTo = "japanese"
    /\ store[last.id].content = "hola " \o backquote \o "[JA]" \o backquote

\* What the toast of a switch says for a value of its setting.
reportOf(key, value) ==
    CASE key = "DislateLangAbbr" ->
            IF value THEN "Successfully enabled language abbreviations."
            ELSE "Successfully disabled language abbreviations."
      [] key = "DislateBothLangToggle" ->
            IF value THEN "Now sending original and translated message."
            ELSE "Now sending only translated message."
      [] OTHER ->
            IF value THEN "Successfully enabled Load Toasts."
            ELSE "Successfully disabled Load Toasts."

\* C19: a step that opens a switch toast inverts the setting of exactly one
\* switch, leaves every other setting as it was, and the toast reports the
\* value the setting has after the inversion.
C19_SwitchWritesBack ==
    [][panel'.toast # panel.toast =>
        \E key \in Switches :
            /\ settings'[key] = ~settings[key]
            /\ settings' = [settings EXCEPT ![key] = ~settings[key]]
            /\ panel'.toast = reportOf(key, settings'[key])]_vars
C19_Witness ==
    /\ panel.toast = "Now sending original and translated message."
    /\ settings.DislateBothLangToggle
    /\ ~settings.DislateLangAbbr
    /\ settings.toastEnable

\* C20: a step that pushes the Languages page leaves DislateLangFilter
\* false when the page is the one of Translate From and true when it is the
\* one of Translate To, whatever was pressed before.
C20_FilterFollowsRow ==
    [][Len(panel'.pages) > Len(panel.pages) =>
        LET page == panel'.pages[Len(panel'.pages)]
        IN /\ page \in {"Dislate: Language From", "Dislate: Language To"}
           /\ settings'.DislateLangFilter
                = <<page = "Dislate: Language To">>]_vars
C20_Witness ==
    /\ panel.pages = <<"Dislate: Language To", "Dislate: Language From">>
    /\ settings.DislateLangFilter = <<FALSE>>

\* A Clear Stores has finished and no item was registered since its press.
cleared == panel.stores.pc = "idle" /\ panel.stores.clean

\* C21: when Clear Stores has finished, every item it found listed is gone
\* from Storage (type storage) or false as a setting (other types) and the
\* list itself is absent; a Clear Stores pressed after another one had
\* finished, with no registration in between, leaves Storage and the
\* settings as they were at its press.
C21_ClearsOnce ==
    cleared =>
        LET st == panel.stores
        IN /\ st.state = << >>
           /\ \A i \in 1..Len(st.items) :
                 IF st.items[i].type = "storage"
                 THEN st.items[i].name \notin st.storage
                 ELSE st.flags[st.items[i].name] = <<FALSE>>
           /\ st.second =>
                 /\ st.storage = st.before.storage
                 /\ st.flags = st.before.flags
                 /\ st.items = << >>
C21_Witness ==
    /\ cleared
    /\ panel.stores.second
    /\ panel.stores.flags["dialog_hidden"] = <<FALSE>>
    /\ panel.stores.flags["incompatible_notice"] = << >>

\* The position of an option in a list of options (0 when it is not in it).
positionIn(list, option) ==
    IF \E i \in 1..Len(list) : list[i] = option
    THEN CHOOSE i \in 1..Len(list) : list[i] = option
    ELSE 0

\* C22: a step that sends a partial log passes exactly the options whose
\* setting is true, each once and in the order of the options; a step that
\* sends a full log passes every option, whatever the settings and the
\* search query are.
C22_LogOptions ==
    [][panel'.info.sent # panel.info.sent =>
        LET passed == panel'.info.sent.options
            options == panel.info.options
        IN IF panel'.info.sent.type = "partial"
           THEN /\ {passed[i] : i \in 1..Len(passed)}
                     = {options[i] : i \in 1..Len(options)}
                          \cap panel.info.chosen
                /\ \A i, j \in 1..Len(passed) :
                      i < j => positionIn(options, passed[i])
                                  < positionIn(options, passed[j])
           ELSE /\ panel'.info.sent.type = "full"
                /\ passed = options]_vars
C22_Witness ==
    /\ panel.info.sent = [type |-> "partial", options |-> <<"Plugin", "Native">>]
    /\ panel.info.query = "zz"
    /\ panel.info.chosen = {"Plugin", "Native"}

\* The step is a press of the inserted button: it takes a ticket, or it
\* ends with a TypeError that was not there before.
pressStep ==
    /\ sheet.closure # << >>
    /\ commands' = commands
    /\ presses' = presses + 1 \/ (thrown' = "TypeError" /\ thrown # "TypeError")

\* C23: a press of an inserted button raises no exception, starts one
\* Translate.string call on the message's content and hides the sheet, also
\* when the message is absent from the store and the button was made from
\* the render arguments.
C23_PressStartsTranslation ==
    [][pressStep =>
        /\ thrown' = ""
        /\ Len(pending') = Len(pending) + 1
        /\ pending'[Len(pending')].messageId = sheet.closure[1].messageId
        /\ pending'[Len(pending')].text = sheet.closure[1].messageContent
        /\ sheet' = NoSheet]_vars

\* A guard of patchActionSheet fails for the render: no props, no button
\* list, or no content in the stored message and in the render argument.
guardFails(render) ==
    \/ render.res.kind \in {"noprops", "nolist"}
    \/ /\ store[render.m].present => store[render.m].content = ""
       /\ renderArg(store, render.m).content = ""

has(list, label) == \E i \in 1..Len(list) : list[i].label = label
hasKey(list, key) == \E i \in 1..Len(list) : list[i].key = key

\* C24: a render on which a guard fails leaves the button list as the
\* render result had it, with no Dislate entry and no button closure, and
\* leaves the revert cache as it was.
C24_GuardsInsertNothing ==
    [][(host'.render.done /\ ~host.render.done /\ guardFails(host.render)) =>
        /\ sheet'.buttons = host'.render.res.list
        /\ sheet'.closure = << >>
        /\ ~hasKey(sheet'.buttons, dislateKey)
        /\ cachedData' = cachedData]_vars
C24_Witness ==
    /\ host.render.done
    /\ host.render.m = "m4"
    /\ host.render.res.kind = "list"
    /\ Len(host.render.res.list) = 2
    /\ sheet.buttons = host.render.res.list

\* C25: a render that passes the guards inserts the entry at index n, n
\* being the number of other known plugin keys that occur in the list plus
\* one for a Reply entry plus one for an Edit entry; the list grows by one
\* and the entries it had keep their order.
C25_InsertionIndex ==
    [][(host'.render.done /\ ~host.render.done /\ ~guardFails(host.render)) =>
        LET list == host'.render.res.list
            n == (IF hasKey(list, "messagespoofer") THEN 1 ELSE 0)
                 + (IF hasKey(list, "copyembed") THEN 1 ELSE 0)
                 + (IF has(list, "Reply") THEN 1 ELSE 0)
                 + (IF has(list, "Edit Message") THEN 1 ELSE 0)
        IN /\ Len(sheet'.buttons) = Len(list) + 1
           /\ sheet'.buttons[n + 1].key = dislateKey
           /\ SubSeq(sheet'.buttons, 1, n)
                 \o SubSeq(sheet'.buttons, n + 2, Len(list) + 1) = list]_vars
C25_Witness ==
    /\ host.render.done
    /\ host.render.m = "m1"
    /\ host.render.res.list
         = <<Button("copy", "Copy Text"), Button("copyembed", "Copy Embed"),
             Button("copyembed", "Copy Embed")>>
    /\ sheet.buttons[2].key = dislateKey

\* C26: on a newer host the render of a sheet with another sheetKey than
\* MessageLongPressActionSheet installs no content hook and inserts
\* nothing, every installed hook comes from the render of a long-press
\* sheet, and an entry is inserted only by such a hook.
C26_OnlyLongPressSheet ==
    [][newerHost(host.version) =>
        /\ (host'.sheetKey # host.sheetKey
              /\ host'.sheetKey # "MessageLongPressActionSheet")
             => (host'.hooks = host.hooks /\ sheet' = sheet)
        /\ \A i \in 1..Len(host'.hooks) :
               host'.hooks[i].sheetKey = "MessageLongPressActionSheet"
        /\ (sheet' # sheet /\ hasKey(sheet'.buttons, dislateKey))
             => \E i \in 1..Len(host.hooks) :
                   /\ host.hooks[i].sheetKey = "MessageLongPressActionSheet"
                   /\ Len(host'.hooks) < Len(host.hooks)]_vars
C26_Witness ==
    /\ newerHost(host.version)
    /\ host.sheetKey = "UserProfileActionSheet"
    /\ Len(host.hooks) = 1
    /\ hasKey(sheet.buttons, dislateKey)
====
